---- MODULE Spec2Model ----
(***************************************************************************)
(* The parameter-driven API crawler of Download_data.py: URL templates,    *)
(* JSON value extraction, the result saver and the fixpoint loop of        *)
(* AllAPI.download over the class-level params / done stores; and single   *)
(* calls of APIUrl.download and JSONProvider.provideRecur.                 *)
(***************************************************************************)
EXTENDS Integers, Sequences, FiniteSets, Bags, TLC

VARIABLES scen, inst, urls, params, done, loop, pc, ui, pending, rounds, log, files,
          call, ret

vars == <<scen, inst, urls, params, done, loop, pc, ui, pending, rounds, log, files, call, ret>>

(***************************************************************************)
(* Strings.  Python str values are TLA+ strings; slicing is SubSeq.        *)
(***************************************************************************)

\* str.startswith
StartsWith(s, p) == Len(p) <= Len(s) /\ SubSeq(s, 1, Len(p)) = p

\* str.endswith
EndsWith(s, p) == Len(p) <= Len(s) /\ SubSeq(s, Len(s) - Len(p) + 1, Len(s)) = p

\* "".join(seq)
RECURSIVE Join(_)
Join(seq) == IF seq = <<>> THEN "" ELSE Head(seq) \o Join(Tail(seq))

\* str.split(sep) for a one-character separator
RECURSIVE SplitFrom(_, _, _)
SplitFrom(s, sep, cur) ==
    IF s = "" THEN <<cur>>
    ELSE IF SubSeq(s, 1, 1) = sep
         THEN <<cur>> \o SplitFrom(SubSeq(s, 2, Len(s)), sep, "")
         ELSE SplitFrom(SubSeq(s, 2, Len(s)), sep, cur \o SubSeq(s, 1, 1))

Split(s, sep) == SplitFrom(s, sep, "")

Digits == <<"0", "1", "2", "3", "4", "5", "6", "7", "8", "9">>

\* the decimal text of an integer, as json.dumps writes it
RECURSIVE NatToStr(_)
NatToStr(n) == IF n < 10 THEN Digits[n + 1] ELSE NatToStr(n \div 10) \o Digits[(n % 10) + 1]

IntToStr(n) == IF n < 0 THEN "-" \o NatToStr(0 - n) ELSE NatToStr(n)

(***************************************************************************)
(* JSON documents as json.loads returns them: a tag t and a value v.       *)
(***************************************************************************)

JStr(s) == [t |-> "str", v |-> s]
JInt(n) == [t |-> "int", v |-> n]
JBool(b) == [t |-> "bool", v |-> b]
JNull == [t |-> "null", v |-> 0]
JList(items) == [t |-> "list", v |-> items]
JDict(fields) == [t |-> "dict", v |-> fields]

\* json.dumps of a scalar
json_dumps(doc) ==
    IF doc.t = "int" THEN IntToStr(doc.v)
    ELSE IF doc.t = "bool" THEN (IF doc.v THEN "true" ELSE "false")
    ELSE "null"

\* the three tests of provideRecur chained as if / elif / elif
RECURSIVE provideRecurElif(_, _)
RECURSIVE provideListElif(_, _)
provideListElif(items, path) ==
    IF items = <<>> THEN <<>>
    ELSE provideRecurElif(Head(items), path) \o provideListElif(Tail(items), path)

provideRecurElif(doc, path) ==
    IF path = <<>>
    THEN IF doc.t = "str" THEN <<doc.v>>
         ELSE IF doc.t \in {"int", "bool", "null"} THEN <<json_dumps(doc)>>
         ELSE <<>>
    ELSE IF doc.t = "list" THEN provideListElif(doc.v, path)
    ELSE IF doc.t = "dict"
         THEN IF Head(path) \in DOMAIN doc.v
              THEN provideRecurElif(doc.v[Head(path)], Tail(path))
              ELSE <<>>
         ELSE <<>>

\* JSONProvider.provideRecur: the values yielded, in order
RECURSIVE provideRecur(_, _)
RECURSIVE provideList(_, _)
provideList(items, path) ==
    IF items = <<>> THEN <<>>
    ELSE provideRecur(Head(items), path) \o provideList(Tail(items), path)

provideRecur(doc, path) ==
    (IF path = <<>>
     THEN IF doc.t = "str" THEN <<doc.v>>
          ELSE IF doc.t \in {"int", "bool", "null"} THEN <<json_dumps(doc)>>
          ELSE <<>>
     ELSE <<>>)
    \o (IF doc.t = "list" THEN provideList(doc.v, path) ELSE <<>>)
    \o (IF doc.t = "dict" /\ path # <<>>
        THEN IF Head(path) \in DOMAIN doc.v
             THEN provideRecur(doc.v[Head(path)], Tail(path))
             ELSE <<>>
        ELSE <<>>)

\* JSONProvider.__init__: a string path is split on '.', a list is used as is
JSONProvider(path) == IF path.t = "str" THEN Split(path.v, ".") ELSE path.v

(***************************************************************************)
(* URL templates and endpoints.                                            *)
(***************************************************************************)

ConstantPart(value) == [kind |-> "constant", value |-> value]
ParameterPart(name) == [kind |-> "parameter", value |-> name]

\* ApiPart.dependencies / ParameterPart.dependencies
PartDependencies(p) == IF p.kind = "parameter" THEN <<p.value>> ELSE <<>>

\* every element taken as literal text, braces or not
makePartLiteral(e) == ConstantPart(e)

\* APIUrl.makePart, for a str element
makePart(e) ==
    IF SubSeq(e, 1, 1) = "{" /\ SubSeq(e, Len(e), Len(e)) = "}"
    THEN ParameterPart(SubSeq(e, 2, Len(e) - 1))
    ELSE ConstantPart(e)

\* APIUrl.makeParts: a str is one part, a list one part per element
makeParts(es) ==
    IF es.t = "str" THEN <<makePart(es.v)>>
    ELSE [i \in 1..Len(es.v) |-> makePart(es.v[i])]

\* APIUrl.from_json: the parts (base first) and the providers, in declaration order
APIUrl_from_json(endpoint, base) ==
    [parts |-> <<ConstantPart(base)>> \o makeParts(endpoint.url),
     providers |-> [i \in 1..Len(endpoint.provides) |->
                      <<endpoint.provides[i][1], JSONProvider(endpoint.provides[i][2])>>]]

\* APIUrl.dependencies: sum of the parts' dependencies, duplicates kept
RECURSIVE PartsDependencies(_)
PartsDependencies(parts) ==
    IF parts = <<>> THEN <<>>
    ELSE PartDependencies(Head(parts)) \o PartsDependencies(Tail(parts))

dependencies(url) == PartsDependencies(url.parts)

\* APIUrl.provides
provides(url) == {url.providers[i][1] : i \in 1..Len(url.providers)}

(***************************************************************************)
(* Python dicts that keep insertion order: a sequence of <<key, value>>    *)
(* with distinct keys.                                                     *)
(***************************************************************************)

DictKeys(d) == {d[i][1] : i \in 1..Len(d)}

DictGet(d, k) == LET i == CHOOSE j \in 1..Len(d) : d[j][1] = k IN d[i][2]

\* d[k] = v: an existing key keeps its position
DictSet(d, k, v) ==
    IF k \in DictKeys(d)
    THEN [i \in 1..Len(d) |-> IF d[i][1] = k THEN <<k, v>> ELSE d[i]]
    ELSE Append(d, <<k, v>>)

\* dict(zip(pnames, x))
RECURSIVE DictZipFrom(_, _, _)
DictZipFrom(d, pnames, x) ==
    IF pnames = <<>> \/ x = <<>> THEN d
    ELSE DictZipFrom(DictSet(d, Head(pnames), Head(x)), Tail(pnames), Tail(x))

DictZip(pnames, x) == DictZipFrom(<<>>, pnames, x)

\* tuple(d.values())
DictValues(d) == [i \in 1..Len(d) |-> d[i][2]]

\* a part rendered with params.get(self.name, ""): a name without a binding
\* renders as nothing
PartBindedOrEmpty(p, url_params) ==
    IF p.kind = "parameter"
    THEN IF p.value \in DictKeys(url_params)
         THEN [ok |-> TRUE, v |-> DictGet(url_params, p.value)]
         ELSE [ok |-> TRUE, v |-> ""]
    ELSE [ok |-> TRUE, v |-> p.value]

\* ParameterPart.binded / ConstantPart.binded: ok is FALSE where
\* params[self.name] raises KeyError; the values are str and str() keeps them
PartBinded(p, url_params) ==
    IF p.kind = "parameter"
    THEN IF p.value \in DictKeys(url_params)
         THEN [ok |-> TRUE, v |-> DictGet(url_params, p.value)]
         ELSE [ok |-> FALSE, v |-> "KeyError"]
    ELSE [ok |-> TRUE, v |-> p.value]

\* APIUrl.binded: the first part that raises ends the join
binded(url, url_params) ==
    LET rs == [i \in 1..Len(url.parts) |-> PartBinded(url.parts[i], url_params)]
    IN  IF \E i \in 1..Len(rs) : ~rs[i].ok
        THEN [ok |-> FALSE, v |-> "KeyError"]
        ELSE [ok |-> TRUE, v |-> Join([i \in 1..Len(rs) |-> rs[i].v])]

\* itertools.product over the pools, the last pool varying fastest: the
\* number of tuples over the pools from position j on
RECURSIVE ProductLen(_, _)
ProductLen(pools, j) ==
    IF j > Len(pools) THEN 1 ELSE Len(pools[j]) * ProductLen(pools, j + 1)

\* the i-th tuple of the product
ProductAt(pools, i) ==
    [j \in 1..Len(pools) |->
        pools[j][(((i - 1) \div ProductLen(pools, j + 1)) % Len(pools[j])) + 1]]

Product(pools) == [i \in 1..ProductLen(pools, 1) |-> ProductAt(pools, i)]

\* the orders in which iterating a set may yield its members
Orderings(S) ==
    {f \in [1..Cardinality(S) -> S] : \A i, j \in 1..Cardinality(S) : i # j => f[i] # f[j]}

\* the pools walked in step (zip) instead of multiplied
RECURSIVE Zipped(_)
Zipped(pools) ==
    IF pools = <<>> \/ \E i \in 1..Len(pools) : pools[i] = <<>> THEN <<>>
    ELSE <<[i \in 1..Len(pools) |-> Head(pools[i])]>>
         \o Zipped([i \in 1..Len(pools) |-> Tail(pools[i])])

all_param_values_zipped(d, pnames, order) ==
    LET pvs == Zipped([i \in 1..Len(pnames) |-> order[pnames[i]]])
    IN  [i \in 1..Len(pvs) |-> DictZip(pnames, pvs[i])]

\* all_param_values(d, pnames), the sets of d iterated in the orders `order`
all_param_values(d, pnames, order) ==
    LET pvs == Product([i \in 1..Len(pnames) |-> order[pnames[i]]])
    IN  [i \in 1..Len(pvs) |-> DictZip(pnames, pvs[i])]

(***************************************************************************)
(* ResultSaver.                                                            *)
(***************************************************************************)

\* ResultSaver.save: the path the contents are written to
SavePath(base, extension, url) ==
    LET stripped == IF StartsWith(url, base) THEN SubSeq(url, Len(base) + 1, Len(url)) ELSE url
    IN  IF EndsWith(stripped, extension) THEN stripped ELSE stripped \o extension

\* ResultSaver.__init__ default extension
DefaultExtension == ".json"

(***************************************************************************)
(* The environment: the configurations crawled and, for each, what the     *)
(* HTTP server may answer for a URL (no entry: the fetch can only fail).   *)
(***************************************************************************)

S(x) == [t |-> "str", v |-> x]
L(x) == [t |-> "list", v |-> x]

\* the configuration at the end of Download_data.py
SparkBase == "http://localhost:18080/api/v1/"

SparkConfig ==
    [base |-> SparkBase,
     urls |-> << [url |-> S("applications"), provides |-> << <<"app-id", S("id")>> >>],
                 [url |-> L(<<"applications/", "{app-id}", "/jobs">>),
                  provides |-> << <<"job-id", S("jobId")>> >>],
                 [url |-> L(<<"applications/", "{app-id}", "/stages">>), provides |-> <<>>],
                 [url |-> L(<<"applications/", "{app-id}", "/jobs/", "{job-id}">>),
                  provides |-> <<>>] >>]

SparkServer ==
    << <<SparkBase \o "applications", <<"[{\"id\":\"app1\"},{\"id\":\"app2\"}]", "<html>", "[]">> >>,
       <<SparkBase \o "applications/app1/jobs", <<"[{\"jobId\":0}]">> >>,
       <<SparkBase \o "applications/app2/jobs", <<"[{\"jobId\":0},{\"jobId\":1}]">> >>,
       <<SparkBase \o "applications/app1/stages", <<"<html>">> >>,
       <<SparkBase \o "applications/app1/jobs/0", <<"{}">> >>,
       <<SparkBase \o "applications/app2/jobs/1", <<"{}">> >> >>

\* two parameters whose values concatenate to the same text, and one
\* template that names the same parameter twice
CollideConfig ==
    [base |-> "",
     urls |-> << [url |-> S("x"), provides |-> << <<"a", S("a")>>, <<"b", L(<<"b">>)>> >>],
                 [url |-> L(<<"{a}", "{b}">>), provides |-> <<>>],
                 [url |-> L(<<"z/", "{a}", "/", "{a}">>), provides |-> <<>>],
                 [url |-> S("x"), provides |-> <<>>] >>]

CollideServer ==
    << <<"x", <<"{\"a\":[\"1\",\"11\"],\"b\":[\"1\",\"11\"]}">> >>,
       <<"111", <<"[]">> >>,
       <<"z/1/1", <<"[]">> >> >>

\* a chain of three endpoints declared consumers first
ReverseConfig ==
    [base |-> "r/",
     urls |-> << [url |-> L(<<"c/", "{q}">>), provides |-> <<>>],
                 [url |-> L(<<"b/", "{p}">>), provides |-> << <<"q", S("ok")>> >>],
                 [url |-> S("a"), provides |-> << <<"p", S("p.id")>> >>] >>]

ReverseServer ==
    << <<"r/a", <<"{\"p\":{\"id\":7}}">> >>,
       <<"r/b/7", <<"{\"ok\":true}">> >>,
       <<"r/c/true", <<"null">> >> >>

\* an endpoint that consumes the parameter it provides
SelfFeedConfig ==
    [base |-> "",
     urls |-> << [url |-> L(<<"n/", "{p}">>), provides |-> << <<"p", S("next")>> >>],
                 [url |-> S("n"), provides |-> << <<"p", S("next")>> >>] >>]

SelfFeedServer ==
    << <<"n", <<"{\"next\":1}">> >>,
       <<"n/1", <<"{\"next\":[2,null]}", "<html>">> >>,
       <<"n/2", <<"{\"next\":1}", "<html>">> >>,
       <<"n/null", <<"{\"next\":\"3\"}">> >>,
       <<"n/3", <<"<html>">> >> >>

\* the scenario of the crawl of two endpoints: the applications, then the
\* jobs of each
EndToEndConfig ==
    [base |-> "",
     urls |-> << [url |-> S("applications"), provides |-> << <<"app-id", S("id")>> >>],
                 [url |-> L(<<"applications/", "{app-id}", "/jobs">>), provides |-> <<>>] >>]

EndToEndServer ==
    << <<"applications", <<"[{\"id\":\"app1\"},{\"id\":\"app2\"}]">> >>,
       <<"applications/app1/jobs", <<"[]">> >>,
       <<"applications/app2/jobs", <<"[]">> >> >>

\* the texts above that are JSON, with the document json.loads makes of each
JsonTexts ==
    << <<"[{\"id\":\"app1\"},{\"id\":\"app2\"}]",
         JList(<<JDict([id |-> JStr("app1")]), JDict([id |-> JStr("app2")])>>)>>,
       <<"[{\"jobId\":0}]", JList(<<JDict([jobId |-> JInt(0)])>>)>>,
       <<"[{\"jobId\":0},{\"jobId\":1}]",
         JList(<<JDict([jobId |-> JInt(0)]), JDict([jobId |-> JInt(1)])>>)>>,
       <<"[]", JList(<<>>)>>,
       <<"{}", JDict(<<>>)>>,
       <<"null", JNull>>,
       <<"{\"a\":[\"1\",\"11\"],\"b\":[\"1\",\"11\"]}",
         JDict([a |-> JList(<<JStr("1"), JStr("11")>>), b |-> JList(<<JStr("1"), JStr("11")>>)])>>,
       <<"{\"p\":{\"id\":7}}", JDict([p |-> JDict([id |-> JInt(7)])])>>,
       <<"{\"ok\":true}", JDict([ok |-> JBool(TRUE)])>>,
       <<"{\"next\":1}", JDict([next |-> JInt(1)])>>,
       <<"{\"next\":[2,null]}", JDict([next |-> JList(<<JInt(2), JNull>>)])>>,
       <<"{\"next\":\"3\"}", JDict([next |-> JStr("3")])>> >>

\* json.loads: ok is FALSE where it raises
json_loads(source) ==
    IF \E i \in 1..Len(JsonTexts) : JsonTexts[i][1] = source
    THEN [ok |-> TRUE, doc |-> JsonTexts[CHOOSE i \in 1..Len(JsonTexts) : JsonTexts[i][1] = source][2]]
    ELSE [ok |-> FALSE, doc |-> JNull]

\* how many AllAPI instances one process makes, at most
MaxInstances == 2

\* how many rounds one download() is followed for
MaxRounds == 6

\* the runs: a configuration, its server, and how many AllAPI instances the
\* process makes of it one after the other
Scenarios ==
    << [config |-> SparkConfig, server |-> SparkServer, instances |-> 1],
       [config |-> CollideConfig, server |-> CollideServer, instances |-> 1],
       [config |-> ReverseConfig, server |-> ReverseServer, instances |-> MaxInstances],
       [config |-> SelfFeedConfig, server |-> SelfFeedServer, instances |-> 1],
       [config |-> EndToEndConfig, server |-> EndToEndServer, instances |-> 1] >>

\* what urlopen(url).read().decode() may return
ServerBodies(server, url) ==
    IF \E i \in 1..Len(server) : server[i][1] = url
    THEN LET bs == server[CHOOSE i \in 1..Len(server) : server[i][1] = url][2]
         IN  {bs[i] : i \in 1..Len(bs)}
    ELSE {}

(***************************************************************************)
(* The scheduler.  scen is the run; inst counts the AllAPI instances made  *)
(* so far and urls is the current one's self.urls, each APIUrl object      *)
(* named <<instance that built it, position>>.  params and done are the    *)
(* class attributes AllAPI.params and AllAPI.done; loop is self.loop.      *)
(* pc, ui and pending are the position in download / download_step /       *)
(* download_url; rounds counts the download_step calls of this download(). *)
(* log is the bag of fetches made, files the files written.  call and ret   *)
(* are a call made of one method from outside the scheduler, and what it   *)
(* gave.                                                                   *)
(***************************************************************************)

Config == Scenarios[scen].config

\* AllAPI.from_json: the APIUrl objects built from each configuration
Built ==
    [k \in 1..Len(Scenarios) |->
        [i \in 1..Len(Scenarios[k].config.urls) |->
            APIUrl_from_json(Scenarios[k].config.urls[i], Scenarios[k].config.base)]]

\* the APIUrl object behind an identity
Obj(o) == Built[scen][o[2]]

\* AllAPI.from_json: fresh APIUrl objects, built by instance number n
FreshUrls(n) == [i \in 1..Len(Config.urls) |-> <<n, i>>]

\* class AllAPI: params = {}, done = set(), loop = True
EmptyParams == [n \in {} |-> {}]

\* no method is called from outside the scheduler
NoCall == [fn |-> "none"]

\* the module is loaded and the first AllAPI is built
Loaded ==
    /\ scen \in 1..Len(Scenarios)
    /\ inst = 1
    /\ urls = FreshUrls(1)
    /\ params = EmptyParams
    /\ done = {}
    /\ loop = TRUE
    /\ pc = "created"
    /\ ui = 0
    /\ pending = <<>>
    /\ rounds = 0
    /\ log = EmptyBag
    /\ files = [f \in {} |-> ""]

Init ==
    /\ Loaded
    /\ call = NoCall
    /\ ret = NoCall

\* AllAPI.download is called
Download ==
    /\ pc = "created"
    /\ pc' = "while"
    /\ UNCHANGED <<call, ret, scen, inst, urls, params, done, loop, ui, pending, rounds, log, files>>

\* while self.loop: the test fails and download returns
Return ==
    /\ pc = "while"
    /\ ~loop
    /\ pc' = "returned"
    /\ UNCHANGED <<call, ret, scen, inst, urls, params, done, loop, ui, pending, rounds, log, files>>

\* a download_step that leaves self.loop as it was
DownloadStepKeepsLoop ==
    /\ pc = "while"
    /\ loop
    /\ rounds < MaxRounds
    /\ rounds' = rounds + 1
    /\ IF urls = <<>> THEN pc' = "while" /\ ui' = 0 ELSE pc' = "url" /\ ui' = 1
    /\ UNCHANGED <<call, ret, scen, inst, urls, params, done, loop, pending, log, files>>

\* AllAPI.download_step up to the first download_url
DownloadStep ==
    /\ pc = "while"
    /\ loop
    /\ rounds < MaxRounds
    /\ loop' = FALSE
    /\ rounds' = rounds + 1
    /\ IF urls = <<>> THEN pc' = "while" /\ ui' = 0 ELSE pc' = "url" /\ ui' = 1
    /\ UNCHANGED <<call, ret, scen, inst, urls, params, done, pending, log, files>>

\* download_url returns: the next url of the for loop, or the end of the step
NextUrl ==
    /\ pending' = <<>>
    /\ IF ui + 1 > Len(urls) THEN pc' = "while" /\ ui' = 0 ELSE pc' = "url" /\ ui' = ui + 1

\* download_url: some dependency has no entry in params
DownloadUrlSkip ==
    /\ pc = "url"
    /\ ~({dependencies(Obj(urls[ui]))[i] : i \in 1..Len(dependencies(Obj(urls[ui])))}
            \subseteq DOMAIN params)
    /\ NextUrl
    /\ UNCHANGED <<call, ret, scen, inst, urls, params, done, loop, rounds, log, files>>

\* some fetch of this round has merged values of one of the names
MergedThisRound(names) ==
    \E e \in BagToSet(log) :
        /\ e.inst = inst /\ e.round = rounds /\ e.provide = "ok"
        /\ provides(Obj(e.ep)) \cap names # {}

\* a round barrier: an endpoint is not entered in the round in which
\* values of its dependencies were merged
DownloadUrlEnterAfterBarrier ==
    /\ pc = "url"
    /\ \E deps \in {dependencies(Obj(urls[ui]))} :
       \E names \in {{deps[i] : i \in 1..Len(deps)}} :
         /\ names \subseteq DOMAIN params
         /\ \E order \in [names -> UNION {Orderings(params[n]) : n \in names}] :
              /\ \A n \in names : order[n] \in Orderings(params[n])
              /\ \E bindings \in {all_param_values(params, deps, order)} :
                    IF bindings = <<>> \/ MergedThisRound(names)
                    THEN NextUrl
                    ELSE pending' = bindings /\ pc' = "binding" /\ ui' = ui
    /\ UNCHANGED <<call, ret, scen, inst, urls, params, done, loop, rounds, log, files>>

\* download_url: the bindings are formed from params as it is now
DownloadUrlEnter ==
    /\ pc = "url"
    /\ \E deps \in {dependencies(Obj(urls[ui]))} :
       \E names \in {{deps[i] : i \in 1..Len(deps)}} :
         /\ names \subseteq DOMAIN params
         /\ \E order \in [names -> UNION {Orderings(params[n]) : n \in names}] :
              /\ \A n \in names : order[n] \in Orderings(params[n])
              /\ \E bindings \in {all_param_values(params, deps, order)} :
                    IF bindings = <<>>
                    THEN NextUrl
                    ELSE pending' = bindings /\ pc' = "binding" /\ ui' = ui
    /\ UNCHANGED <<call, ret, scen, inst, urls, params, done, loop, rounds, log, files>>

\* todo = (url, tuple(url_params.values()))
Todo == <<urls[ui], DictValues(Head(pending))>>

\* a dedup that forgets the keys of earlier rounds
IssuedThisRoundOnly(todo) ==
    \E e \in BagToSet(log) : <<e.ep, e.key>> = todo /\ e.inst = inst /\ e.round = rounds

\* todo in self.done
Issued(todo) == todo \in done

\* the for loop over the bindings goes on, or download_url returns
NextBinding ==
    IF Tail(pending) = <<>>
    THEN NextUrl
    ELSE pending' = Tail(pending) /\ pc' = "binding" /\ ui' = ui

\* what is recorded of one fetch
Event(fetch, save, provide) ==
    [ep |-> urls[ui], key |-> DictValues(Head(pending)),
     url |-> binded(Obj(urls[ui]), Head(pending)).v,
     inst |-> inst, round |-> rounds, fetch |-> fetch, save |-> save, provide |-> provide]

\* if todo in self.done: continue
BindingSkip ==
    /\ pc = "binding"
    /\ Issued(Todo)
    /\ NextBinding
    /\ UNCHANGED <<call, ret, scen, inst, urls, params, done, loop, rounds, log, files>>

\* a failed fetch that is let through: the exception leaves download()
BindingFetchFailRaises ==
    /\ pc = "binding"
    /\ ~Issued(Todo)
    /\ done' = done \cup {Todo}
    /\ log' = log (+) SetToBag({Event("failed", "none", "none")})
    /\ pc' = "raised"
    /\ UNCHANGED <<call, ret, scen, inst, urls, params, loop, rounds, files, ui, pending>>

\* a failed fetch whose key is not kept, so that it is tried again
BindingFetchFailRetries ==
    /\ pc = "binding"
    /\ ~Issued(Todo)
    /\ log' = log (+) SetToBag({Event("failed", "none", "none")})
    /\ NextBinding
    /\ UNCHANGED <<call, ret, scen, inst, urls, params, done, loop, rounds, files>>

\* url.download raises
BindingFetchFail ==
    /\ pc = "binding"
    /\ ~Issued(Todo)
    /\ done' = done \cup {Todo}
    /\ log' = log (+) SetToBag({Event("failed", "none", "none")})
    /\ NextBinding
    /\ UNCHANGED <<call, ret, scen, inst, urls, params, loop, rounds, files>>

\* self.saver.save(url_str, result): written, or it raises and nothing is
Save(saved, url_str, result) ==
    IF saved
    THEN LET path == SavePath(Config.base, DefaultExtension, url_str)
         IN  files' = [f \in DOMAIN files \cup {path} |-> IF f = path THEN result ELSE files[f]]
    ELSE files' = files

\* APIUrl.provide raises: json.loads fails in the first provider
ProvideRaises(url, result) == url.providers # <<>> /\ ~json_loads(result).ok

\* a failed extraction that still counts as progress
BindingProvideFailMarksProgress ==
    /\ pc = "binding"
    /\ ~Issued(Todo)
    /\ \E result \in ServerBodies(Scenarios[scen].server, binded(Obj(urls[ui]), Head(pending)).v) :
       \E saved \in BOOLEAN :
         /\ ProvideRaises(Obj(urls[ui]), result)
         /\ done' = done \cup {Todo}
         /\ Save(saved, binded(Obj(urls[ui]), Head(pending)).v, result)
         /\ log' = log (+) SetToBag({Event("ok", IF saved THEN "ok" ELSE "failed", "failed")})
    /\ loop' = TRUE
    /\ NextBinding
    /\ UNCHANGED <<call, ret, scen, inst, urls, params, rounds>>

\* the fetch succeeds, url.provide raises
BindingProvideFail ==
    /\ pc = "binding"
    /\ ~Issued(Todo)
    /\ \E result \in ServerBodies(Scenarios[scen].server, binded(Obj(urls[ui]), Head(pending)).v) :
       \E saved \in BOOLEAN :
         /\ ProvideRaises(Obj(urls[ui]), result)
         /\ done' = done \cup {Todo}
         /\ Save(saved, binded(Obj(urls[ui]), Head(pending)).v, result)
         /\ log' = log (+) SetToBag({Event("ok", IF saved THEN "ok" ELSE "failed", "failed")})
    /\ NextBinding
    /\ UNCHANGED <<call, ret, scen, inst, urls, params, loop, rounds>>

\* a merge that assigns the new values in place of the known ones
RECURSIVE MergeReplacing(_, _, _)
MergeReplacing(store, providers, doc) ==
    IF providers = <<>> THEN store
    ELSE LET param == Head(providers)[1]
             values == provideRecur(doc, Head(providers)[2])
             next == {values[i] : i \in 1..Len(values)}
         IN  MergeReplacing([n \in DOMAIN store \cup {param} |->
                                IF n = param THEN next ELSE store[n]],
                            Tail(providers), doc)

\* for param, values in new_params.items(): prev.update(values)
RECURSIVE Merge(_, _, _)
Merge(store, providers, doc) ==
    IF providers = <<>> THEN store
    ELSE LET param == Head(providers)[1]
             values == provideRecur(doc, Head(providers)[2])
             prev == IF param \in DOMAIN store THEN store[param] ELSE {}
             next == prev \cup {values[i] : i \in 1..Len(values)}
         IN  Merge([n \in DOMAIN store \cup {param} |-> IF n = param THEN next ELSE store[n]],
                   Tail(providers), doc)

\* new_params of a url that has no providers is {} and nothing is parsed
Merged(store, url, result) ==
    IF url.providers = <<>> THEN store ELSE Merge(store, url.providers, json_loads(result).doc)

\* a flag set only when the merge changed the store
LoopIfNewValues(old, new) == loop \/ old # new

\* a merge that leaves the flag as download_step set it
LoopLeftAsIs(old, new) == loop

\* self.loop = True after the merge
LoopAfterMerge(old, new) == TRUE

\* a failed save that ends the binding: nothing is extracted or merged
BindingMergeUnlessSaveFailed ==
    /\ pc = "binding"
    /\ ~Issued(Todo)
    /\ \E result \in ServerBodies(Scenarios[scen].server, binded(Obj(urls[ui]), Head(pending)).v) :
       \E saved \in BOOLEAN :
         /\ ~ProvideRaises(Obj(urls[ui]), result)
         /\ done' = done \cup {Todo}
         /\ Save(saved, binded(Obj(urls[ui]), Head(pending)).v, result)
         /\ params' = IF saved THEN Merged(params, Obj(urls[ui]), result) ELSE params
         /\ loop' = IF saved THEN LoopAfterMerge(params, params') ELSE loop
         /\ log' = log (+) SetToBag({Event("ok", IF saved THEN "ok" ELSE "failed",
                                           IF saved THEN "ok" ELSE "none")})
    /\ NextBinding
    /\ UNCHANGED <<call, ret, scen, inst, urls, rounds>>

\* the fetch and url.provide succeed: the values are merged
BindingMerge ==
    /\ pc = "binding"
    /\ ~Issued(Todo)
    /\ \E result \in ServerBodies(Scenarios[scen].server, binded(Obj(urls[ui]), Head(pending)).v) :
       \E saved \in BOOLEAN :
         /\ ~ProvideRaises(Obj(urls[ui]), result)
         /\ done' = done \cup {Todo}
         /\ Save(saved, binded(Obj(urls[ui]), Head(pending)).v, result)
         /\ params' = Merged(params, Obj(urls[ui]), result)
         /\ loop' = LoopAfterMerge(params, params')
         /\ log' = log (+) SetToBag({Event("ok", IF saved THEN "ok" ELSE "failed", "ok")})
    /\ NextBinding
    /\ UNCHANGED <<call, ret, scen, inst, urls, rounds>>

\* a later AllAPI(...) of the same process, over the same APIUrl objects or
\* over fresh ones; the class attributes are what the earlier crawl left
NewInstance ==
    /\ pc = "returned"
    /\ inst < Scenarios[scen].instances
    /\ inst' = inst + 1
    /\ \/ urls' = urls
       \/ urls' = FreshUrls(inst + 1)
    /\ loop' = TRUE
    /\ rounds' = 0
    /\ pc' = "created"
    /\ UNCHANGED <<call, ret, scen, params, done, ui, pending, log, files>>

Next ==
    \/ Download
    \/ Return
    \/ DownloadStep
    \/ DownloadUrlSkip
    \/ DownloadUrlEnter
    \/ BindingSkip
    \/ BindingFetchFail
    \/ BindingProvideFail
    \/ BindingMerge
    \/ NewInstance

Spec == Init /\ [][Next]_vars

\* the interpreter runs the single thread on: every step that can be taken is
FairSpec == Spec /\ WF_vars(Next)

(***************************************************************************)
(* The methods called one at a time from outside the scheduler:            *)
(* APIUrl.download on bindings of the caller's choice, and                 *)
(* JSONProvider.provideRecur on a document and a path.                     *)
(***************************************************************************)

\* how many names the bindings of a call have, at most
MaxBindings == 2

\* how many keys the path of a call has, at most
MaxPathLen == 2

\* the parameter names of the templates of configuration k
NamesOf(k) ==
    UNION {{dependencies(Built[k][i])[j] : j \in 1..Len(dependencies(Built[k][i]))} :
             i \in 1..Len(Built[k])}

BindingValues == {"app1", "7"}

\* the dicts of at most n entries over the names
Dicts(names, n) ==
    {d \in UNION {[1..k -> names \X BindingValues] : k \in 0..n} :
        \A i, j \in 1..Len(d) : i # j => d[i][1] # d[j][1]}

\* the sub-documents of a document, itself included
RECURSIVE SubDocs(_)
SubDocs(doc) ==
    {doc} \cup
    (IF doc.t = "list" THEN UNION {SubDocs(doc.v[i]) : i \in 1..Len(doc.v)}
     ELSE IF doc.t = "dict" THEN UNION {SubDocs(doc.v[k]) : k \in DOMAIN doc.v}
     ELSE {})

\* {"a":[{"id":1},{"id":2}]} and {"a":"x"}
DocListOfIds == JDict([a |-> JList(<<JDict([id |-> JInt(1)]), JDict([id |-> JInt(2)])>>)])
DocStringLeaf == JDict([a |-> JStr("x")])

\* the documents handed to provideRecur: the bodies of the servers, lists
\* in lists, objects in objects, scalars of each type, and all their parts
Documents ==
    UNION {SubDocs(d) : d \in
        {JsonTexts[i][2] : i \in 1..Len(JsonTexts)} \cup
        {DocListOfIds, DocStringLeaf,
         JList(<<JList(<<JInt(1), JStr("x")>>), JList(<<>>), JBool(FALSE)>>),
         JDict([a |-> JDict([a |-> JInt(0 - 3), id |-> JList(<<JNull, JStr("")>>)]),
                id |-> JList(<<JDict([a |-> JBool(TRUE)]), JInt(10),
                               JDict([id |-> JList(<<JDict([id |-> JStr("y")])>>)])>>)])}}

PathKeys == {"a", "id", "p"}

Paths == UNION {[1..k -> PathKeys] : k \in 0..MaxPathLen}

\* the calls: url is a position in self.urls
Calls ==
    {[fn |-> "download", url |-> i, params |-> d] :
        i \in 1..Len(urls), d \in Dicts(NamesOf(scen), MaxBindings)}
    \cup {[fn |-> "provideRecur", doc |-> d, path |-> p] : d \in Documents, p \in Paths}

UnitInit ==
    /\ Loaded
    /\ call \in Calls
    /\ ret = NoCall

\* APIUrl.download(params): binded raises before urlopen is reached, or the
\* URL is handed to urlopen, which returns a body or raises
APIUrlDownload ==
    /\ call.fn = "download"
    /\ ret = NoCall
    /\ \E r \in {binded(Obj(urls[call.url]), call.params)} :
         \/ /\ ~r.ok
            /\ ret' = [fn |-> "download", raised |-> "KeyError", fetched |-> <<>>, v |-> ""]
         \/ /\ r.ok
            /\ \E body \in ServerBodies(Scenarios[scen].server, r.v) :
                  ret' = [fn |-> "download", raised |-> "", fetched |-> <<r.v>>, v |-> body]
         \/ /\ r.ok
            /\ ret' = [fn |-> "download", raised |-> "URLError", fetched |-> <<r.v>>, v |-> ""]
    /\ UNCHANGED <<call, scen, inst, urls, params, done, loop, pc, ui, pending, rounds, log, files>>

\* list(JSONProvider(path).provideRecur(doc, path))
ProvideRecurCall ==
    /\ call.fn = "provideRecur"
    /\ ret = NoCall
    /\ ret' = [fn |-> "provideRecur", raised |-> "", fetched |-> <<>>,
               v |-> provideRecur(call.doc, call.path)]
    /\ UNCHANGED <<call, scen, inst, urls, params, done, loop, pc, ui, pending, rounds, log, files>>

UnitNext ==
    \/ APIUrlDownload
    \/ ProvideRecurCall

UnitSpec == UnitInit /\ [][UnitNext]_vars

(***************************************************************************)
(* Properties.                                                             *)
(***************************************************************************)

Events == BagToSet(log)

\* the fetches issued for one dedup key, for one URL
EventsOfKey(todo) == {e \in Events : <<e.ep, e.key>> = todo}
EventsOfUrl(u) == {e \in Events : e.url = u}

RECURSIVE CopiesOf(_)
CopiesOf(es) ==
    IF es = {} THEN 0
    ELSE LET e == CHOOSE x \in es : TRUE IN CopiesIn(e, log) + CopiesOf(es \ {e})

\* C1: over all rounds (and all instances of the process) the fetch for an
\* (endpoint, bound values) key is issued at most once, whether it succeeded
\* or failed, and only keys of the issued set (done) have been fetched
C1_FetchedAtMostOncePerKey ==
    /\ \A e \in Events : <<e.ep, e.key>> \in done /\ CopiesOf(EventsOfKey(<<e.ep, e.key>>)) = 1
    /\ (pc = "binding" /\ Issued(Todo)) => CopiesOf(EventsOfKey(Todo)) = 1

\* C1 witness: a crawl that went through three rounds, so that keys issued
\* in the first round, one whose fetch failed and one whose fetch succeeded,
\* were met again and skipped
C1_Witness ==
    /\ pc = "returned"
    /\ rounds >= 3
    /\ \E e \in Events : e.round = 1 /\ e.fetch = "failed"
    /\ \E e \in Events : e.round = 1 /\ e.fetch = "ok"

\* the names of a dependency list, each once, in the order of first occurrence
RECURSIVE DistinctNames(_, _)
DistinctNames(deps, seen) ==
    IF deps = <<>> THEN <<>>
    ELSE IF Head(deps) \in seen THEN DistinctNames(Tail(deps), seen)
         ELSE <<Head(deps)>> \o DistinctNames(Tail(deps), seen \cup {Head(deps)})

\* the URL a dedup key renders to
UrlOfTodo(todo) ==
    binded(Obj(todo[1]), DictZip(DistinctNames(dependencies(Obj(todo[1])), {}), todo[2])).v

\* C2 as stated: no concrete URL is fetched more than once
C2_UrlFetchedAtMostOnce == \A e \in Events : CopiesOf(EventsOfUrl(e.url)) <= 1

\* C2 amended: a concrete URL is fetched exactly once for each issued
\* (endpoint, binding key) pair that renders to it, so that two endpoints or
\* two bindings rendering the same URL fetch it once each
C2_UrlFetchedOncePerKey ==
    LET rendered == {<<todo, UrlOfTodo(todo)>> : todo \in done}
    IN  \A u \in {e.url : e \in Events} \cup {r[2] : r \in rendered} :
            CopiesOf(EventsOfUrl(u)) = Cardinality({r \in rendered : r[2] = u})

\* C2 witness: one URL fetched for two bindings of one endpoint, and one URL
\* fetched for two endpoints
C2_Witness ==
    /\ \E e1, e2 \in Events : e1.url = e2.url /\ e1.ep = e2.ep /\ e1.key # e2.key
    /\ \E e1, e2 \in Events : e1.url = e2.url /\ e1.ep # e2.ep

\* C3 as stated: once the first round of a download() is over, every
\* endpoint of the instance that has no dependencies was fetched in it,
\* with the empty tuple as its binding
C3_NoDepsFetchedInFirstRound ==
    (rounds >= 1 /\ pc \in {"while", "returned"}) =>
        \A i \in 1..Len(urls) :
            dependencies(Obj(urls[i])) = <<>> =>
                \E e \in Events : e.ep = urls[i] /\ e.key = <<>> /\ e.inst = inst /\ e.round = 1

\* the endpoints (positions in the configuration) that provide a dependency
\* of endpoint i
Feeders(eps, i) ==
    LET deps == dependencies(eps[i])
    IN  {j \in 1..Len(eps) : \E k \in 1..Len(deps) : deps[k] \in provides(eps[j])}

Max(ns) == CHOOSE n \in ns : \A m \in ns : m <= n

\* the endpoints on the longest dependency chain that ends in endpoint i,
\* followed for at most fuel endpoints
RECURSIVE ChainTo(_, _, _)
ChainTo(eps, i, fuel) ==
    IF fuel = 0 THEN 0
    ELSE 1 + Max({0} \cup {ChainTo(eps, j, fuel - 1) : j \in Feeders(eps, i)})

\* per configuration: whether discovery is acyclic, and the longest chain
Chains ==
    [k \in 1..Len(Scenarios) |->
        LET eps == Built[k]
        IN  [acyclic |-> \A i \in 1..Len(eps) : ChainTo(eps, i, Len(eps) + 1) <= Len(eps),
             longest |-> Max({0} \cup {ChainTo(eps, i, Len(eps)) : i \in 1..Len(eps)})]]

Acyclic == Chains[scen].acyclic

LongestChain == Chains[scen].longest

\* in the crawl of the current instance every endpoint was fetched and
\* every fetch, save and extraction succeeded
CrawlAllSucceeded ==
    /\ \A e \in Events : e.inst = inst => e.fetch = "ok" /\ e.save = "ok" /\ e.provide = "ok"
    /\ \A i \in 1..Len(urls) : \E e \in Events : e.inst = inst /\ e.ep = urls[i]

C5_ProgressOnlyIfNew == [][(pc = "binding" /\ ~loop /\ loop') => params' # params]_vars

\* C5 amended: during and after a round the progress flag is set exactly
\* when some binding of that round was fetched and extracted successfully,
\* whether or not its merge added anything; a pass without such a binding
\* is the last
C5_ProgressIffExtracted ==
    /\ rounds >= 1 =>
         (loop <=> \E e \in Events : e.inst = inst /\ e.round = rounds /\ e.provide = "ok")
    /\ pc = "returned" => ~loop

\* C5 witness: the flag is set in a round by bindings of endpoints that
\* provide nothing, the parameter store still empty
C5_Witness ==
    /\ loop
    /\ rounds >= 1
    /\ params = EmptyParams
    /\ \E e \in Events : e.inst = inst /\ e.round = rounds /\ e.provide = "ok"

\* C6: a download() that has started returns, for every configuration
\* (self-feeding ones too) and every pattern of fetch, save and extraction
\* failures
C6_DownloadReturns == (pc = "while") ~> (pc = "returned")

\* C6 witness: the self-feeding configuration has returned after failures
\* of each kind
C6_Witness ==
    /\ pc = "returned"
    /\ Config = SelfFeedConfig
    /\ \E e \in Events : e.fetch = "failed"
    /\ \E e \in Events : e.provide = "failed"
    /\ \E e \in Events : e.save = "failed"
    /\ rounds >= 4

\* |params[d1]| * ... * |params[dk]|
RECURSIVE ProductCardinality(_)
ProductCardinality(deps) ==
    IF deps = <<>> THEN 1 ELSE Cardinality(params[Head(deps)]) * ProductCardinality(Tail(deps))

CurrentDeps == dependencies(Obj(urls[ui]))

\* C7 as stated, on the bindings still to process: each has its own dedup
\* key, a tuple with one value per dependency occurrence
C7_EachTupleOwnKey ==
    pc = "binding" =>
        /\ \A i \in 1..Len(pending) : Len(DictValues(pending[i])) = Len(CurrentDeps)
        /\ \A i, j \in 1..Len(pending) :
              i # j => DictValues(pending[i]) # DictValues(pending[j])

\* C7 amended: entering an eligible endpoint forms exactly
\* |params[d1]| * ... * |params[dk]| candidates, one factor per dependency
\* occurrence; a candidate maps each name to one value (the last
\* occurrence's), and its dedup key holds one value per distinct name, so
\* the candidates have one key per tuple over the distinct names
C7_CandidatesAndKeys ==
    [][(pc = "url" /\ {CurrentDeps[i] : i \in 1..Len(CurrentDeps)} \subseteq DOMAIN params) =>
         /\ Len(pending') = ProductCardinality(CurrentDeps)
         /\ \A i \in 1..Len(pending') :
               Len(DictValues(pending'[i])) = Len(DistinctNames(CurrentDeps, {}))
         /\ Cardinality({DictValues(pending'[i]) : i \in 1..Len(pending')})
               = ProductCardinality(DistinctNames(CurrentDeps, {}))]_vars

\* C7 witness: an endpoint naming one parameter of two values twice has
\* just been entered with 2 * 2 candidates
C7_Witness ==
    /\ pc = "binding"
    /\ Len(CurrentDeps) = 2
    /\ Len(DistinctNames(CurrentDeps, {})) = 1
    /\ Len(pending) = 4

\* the step records a fetch with a failure in it
NewEvents == {e \in BagToSet(log') : CopiesIn(e, log') > CopiesIn(e, log)}

FailureStep ==
    \E e \in NewEvents : e.fetch = "failed" \/ e.save = "failed" \/ e.provide = "failed"

\* the scheduler is at the next binding of the endpoint, else at the next
\* endpoint of the round, else at the loop test
Continues ==
    IF Tail(pending) # <<>>
    THEN pc' = "binding" /\ pending' = Tail(pending) /\ ui' = ui
    ELSE IF ui < Len(urls)
         THEN pc' = "url" /\ ui' = ui + 1
         ELSE pc' = "while"

\* C8: a fetch, save or extraction failure leaves the scheduler at the
\* remaining bindings and endpoints of the round, and download() still
\* returns
C8_FailuresDoNotAbort ==
    /\ [][FailureStep => Continues]_vars
    /\ []((\E e \in Events : e.fetch = "failed" \/ e.save = "failed" \/ e.provide = "failed")
            => <>(pc = "returned"))

\* C8 witness: a crawl has returned with a failed fetch, a failed save and
\* a failed extraction behind it, and fetches made after the first failure
C8_Witness ==
    /\ pc = "returned"
    /\ \E e \in Events : e.fetch = "failed"
    /\ \E e \in Events : e.provide = "failed"
    /\ \E e \in Events : e.save = "failed" /\ e.provide = "ok"
    /\ \E e1, e2 \in Events : e1.fetch = "failed" /\ e2.round > e1.round /\ e2.fetch = "ok"

\* C9: a failed fetch keeps its key in done and is never fetched again;
\* the failing step writes no file and leaves params and the progress flag
\* as they were
C9_FetchFailureAbandons ==
    /\ [](\A e \in Events :
            e.fetch = "failed" =>
               <<e.ep, e.key>> \in done /\ CopiesOf(EventsOfKey(<<e.ep, e.key>>)) = 1)
    /\ [][(\E e \in NewEvents : e.fetch = "failed") =>
            /\ done' = done \cup {Todo}
            /\ params' = params
            /\ loop' = loop
            /\ files' = files]_vars

\* C9 witness: in a later round the scheduler is at a binding whose fetch
\* failed in an earlier round
C9_Witness ==
    /\ pc = "binding"
    /\ Issued(Todo)
    /\ \E e \in EventsOfKey(Todo) : e.fetch = "failed" /\ e.inst = inst /\ e.round < rounds

\* C10 as stated: when an instance's download() starts, params and done
\* are empty
C10_StoresEmptyAtCrawlStart == pc = "created" => params = EmptyParams /\ done = {}

\* the server answers the URL of the current binding, and never with JSON
OnlyInvalidJson ==
    LET bodies == ServerBodies(Scenarios[scen].server, binded(Obj(urls[ui]), Head(pending)).v)
    IN  bodies # {} /\ \A b \in bodies : ~json_loads(b).ok

\* C11 as stated: a fetched body that is not valid JSON makes the
\* extraction fail for every endpoint, one that declares no provides
\* included, and the binding is abandoned: nothing merged, the progress
\* flag as it was
C11_InvalidJsonAlwaysFails ==
    [][(pc = "binding" /\ ~Issued(Todo) /\ OnlyInvalidJson /\ \E e \in NewEvents : e.fetch = "ok")
         => /\ \A e \in NewEvents : e.provide = "failed"
            /\ params' = params
            /\ loop' = loop]_vars

\* C12: a step whose save failed still runs the extraction on the fetched
\* body: the key is issued, and either the extraction raises and nothing is
\* merged, or its values are merged and the progress flag set, just as
\* after a save that succeeded; only the file is not written
C12_SaveFailureStillExtracts ==
    [][(\E e \in NewEvents : e.fetch = "ok" /\ e.save = "failed") =>
         /\ files' = files
         /\ done' = done \cup {Todo}
         /\ \E result \in ServerBodies(Scenarios[scen].server,
                                       binded(Obj(urls[ui]), Head(pending)).v) :
               IF ProvideRaises(Obj(urls[ui]), result)
               THEN /\ \A e \in NewEvents : e.provide = "failed"
                    /\ params' = params
                    /\ loop' = loop
               ELSE /\ \A e \in NewEvents : e.provide = "ok"
                    /\ params' = Merged(params, Obj(urls[ui]), result)
                    /\ loop']_vars

\* C12 witness: the applications were fetched, their save failed, and
\* both ids extracted from that response were merged and then bound
C12_Witness ==
    /\ pc = "returned"
    /\ \E e \in Events : e.url = "applications" /\ e.save = "failed" /\ e.provide = "ok"
    /\ "app-id" \in DOMAIN params
    /\ params["app-id"] = {"app1", "app2"}
    /\ \E e \in Events : e.url = "applications/app2/jobs" /\ e.fetch = "ok"
    /\ DOMAIN files = {"applications/app1/jobs.json", "applications/app2/jobs.json"}

\* the fetches made for the endpoint at position i of the current instance
EventsOfEndpoint(i) == {e \in Events : e.ep = urls[i]}

\* C13: in the configuration of endpoint A = "applications" (provides
\* app-id from id) and endpoint B = applications/{app-id}/jobs, when A
\* returned [{"id":"app1"},{"id":"app2"}] the finished crawl has fetched A
\* once and B twice, at applications/app1/jobs and applications/app2/jobs
C13_EndToEnd ==
    (Config = EndToEndConfig /\ pc = "returned"
        /\ \E e \in EventsOfEndpoint(1) : e.fetch = "ok") =>
        /\ CopiesOf(EventsOfEndpoint(1)) = 1
        /\ {e.url : e \in EventsOfEndpoint(1)} = {"applications"}
        /\ CopiesOf(EventsOfEndpoint(2)) = 2
        /\ {e.url : e \in EventsOfEndpoint(2)}
              = {"applications/app1/jobs", "applications/app2/jobs"}

\* C13 witness: that crawl has returned after two rounds, both jobs
\* fetched and saved
C13_Witness ==
    /\ Config = EndToEndConfig
    /\ pc = "returned"
    /\ rounds = 2
    /\ \A e \in Events : e.fetch = "ok" /\ e.save = "ok"
    /\ CopiesOf(EventsOfEndpoint(2)) = 2
    /\ DOMAIN files = {"applications.json", "applications/app1/jobs.json",
                       "applications/app2/jobs.json"}

\* the names of the template of the called url that the bindings lack
MissingNames ==
    {n \in {dependencies(Obj(urls[call.url]))[j] :
               j \in 1..Len(dependencies(Obj(urls[call.url])))} :
        n \notin DictKeys(call.params)}

\* C14: APIUrl.download on bindings that lack a name of a parameter
\* segment of the template ends in the error of the missing binding
\* (KeyError), and no URL was handed to urlopen
C14_MissingBindingRaises ==
    (ret.fn = "download" /\ MissingNames # {}) =>
        ret.raised = "KeyError" /\ ret.fetched = <<>>

\* C14 witness: a template of two parameters was called with a binding
\* for the first only, and has raised
C14_Witness ==
    /\ ret.fn = "download"
    /\ Len(dependencies(Obj(urls[call.url]))) = 2
    /\ Cardinality(MissingNames) = 1
    /\ dependencies(Obj(urls[call.url]))[1] \in DictKeys(call.params)
    /\ ret.raised = "KeyError"

\* a scalar as the text of its JSON literal, a string as it is
ScalarText(doc) ==
    CASE doc.t = "str" -> doc.v
      [] doc.t = "int" -> IntToStr(doc.v)
      [] doc.t = "bool" -> (IF doc.v THEN "true" ELSE "false")
      [] doc.t = "null" -> "null"

\* the extraction by the type of the document: an array passes the path on
\* to its elements, an object consumes one key, a scalar is yielded at the
\* end of the path only
RECURSIVE Extracted(_, _)
Extracted(doc, path) ==
    CASE doc.t = "list" ->
           LET RECURSIVE Each(_)
               Each(i) == IF i > Len(doc.v) THEN <<>>
                          ELSE Extracted(doc.v[i], path) \o Each(i + 1)
           IN  Each(1)
      [] doc.t = "dict" ->
           IF path # <<>> /\ Head(path) \in DOMAIN doc.v
           THEN Extracted(doc.v[Head(path)], Tail(path))
           ELSE <<>>
      [] OTHER -> IF path = <<>> THEN <<ScalarText(doc)>> ELSE <<>>

\* C15: provideRecur yields, for every document and path, what the
\* extraction by type yields: arrays are transparent to the path, elements
\* in order and depth first; {"a":[{"id":1},{"id":2}]} with path a, id
\* yields "1", "2" and {"a":"x"} with path a, id yields nothing
C15_ArraysTransparent ==
    ret.fn = "provideRecur" =>
        /\ ret.v = Extracted(call.doc, call.path)
        /\ (call.doc.t = "list" /\ Len(call.doc.v) = 2) =>
               ret.v = provideRecur(call.doc.v[1], call.path)
                         \o provideRecur(call.doc.v[2], call.path)
        /\ (call.doc = DocListOfIds /\ call.path = <<"a", "id">>) => ret.v = <<"1", "2">>
        /\ (call.doc = DocStringLeaf /\ call.path = <<"a", "id">>) => ret.v = <<>>

\* C15 witness: the ids of the objects of an array under a key were
\* extracted in array order
C15_Witness ==
    /\ ret.fn = "provideRecur"
    /\ call.doc = DocListOfIds
    /\ call.path = <<"a", "id">>
    /\ ret.v = <<"1", "2">>

\* the tuples of the Cartesian product of the known values of deps
TuplesOver(deps) ==
    {x \in [1..Len(deps) -> UNION {params[deps[j]] : j \in 1..Len(deps)}] :
        \A j \in 1..Len(deps) : x[j] \in params[deps[j]]}

\* C16: when download() has returned, every endpoint of the instance whose
\* dependencies are all keys of params has the dedup key of every binding
\* of the Cartesian product of their known values in done: no further
\* request can be formed
C16_FixpointAtReturn ==
    pc = "returned" =>
        \A i \in 1..Len(urls) :
            LET deps == dependencies(Obj(urls[i]))
            IN  {deps[j] : j \in 1..Len(deps)} \subseteq DOMAIN params =>
                    \A x \in TuplesOver(deps) :
                        <<urls[i], DictValues(DictZip(deps, x))>> \in done

\* C16 witness: a crawl has returned with all four bindings of an endpoint
\* of two parameters, two known values each, issued
C16_Witness ==
    /\ pc = "returned"
    /\ \E i \in 1..Len(urls) :
          /\ Len(dependencies(Obj(urls[i]))) = 2
          /\ \A j \in 1..2 : dependencies(Obj(urls[i]))[j] \in DOMAIN params
          /\ Cardinality(TuplesOver(dependencies(Obj(urls[i])))) = 4
          /\ Cardinality({todo \in done : todo[1] = urls[i]}) = 4

\* C17: no step removes a key or a value from params or an entry from
\* done; each is a superset of what it was, from one instance of the
\* process to the next as well
C17_StoresOnlyGrow ==
    [][/\ DOMAIN params \subseteq DOMAIN params'
       /\ \A n \in DOMAIN params : params[n] \subseteq params'[n]
       /\ done \subseteq done']_vars

\* C17 witness: one parameter has been merged into in three rounds, the
\* last merge bringing nothing but a value already known, and holds the
\* values of all of them
C17_Witness ==
    /\ "p" \in DOMAIN params
    /\ {"1", "2", "null"} \subseteq params["p"]
    /\ \E e \in Events : e.url = "n/2" /\ e.provide = "ok"
    /\ Cardinality(done) >= 4

\* C18: the step in which the extraction fails on a fetched body leaves
\* params as it was before the binding and does not touch the progress
\* flag; the key stays issued
C18_ExtractionFailureMergesNothing ==
    [][(\E e \in NewEvents : e.provide = "failed") =>
         /\ params' = params
         /\ loop' = loop
         /\ done' = done \cup {Todo}]_vars

\* C18 witness: a pass has ended without progress, a fetched body of an
\* endpoint with a provider having failed to parse in it, with values
\* known from earlier rounds
C18_Witness ==
    /\ pc = "while"
    /\ ~loop
    /\ params # EmptyParams
    /\ \E e \in Events : e.inst = inst /\ e.round = rounds /\ e.provide = "failed"
                           /\ Obj(e.ep).providers # <<>>

\* C19: every step in which a binding is fetched and extracted
\* successfully leaves the progress flag set, whatever the merge added,
\* also for an endpoint without provides
C19_ExtractionSuccessSetsLoop ==
    [][(\E e \in NewEvents : e.fetch = "ok" /\ e.provide = "ok") => loop']_vars

\* C19 witness: the flag is set in a round whose only extraction brought
\* a value that params already held
C19_Witness ==
    /\ loop
    /\ rounds >= 1
    /\ "p" \in DOMAIN params
    /\ \E e \in Events :
          /\ e.inst = inst /\ e.round = rounds /\ e.url = "n/2" /\ e.provide = "ok"
          /\ \A e2 \in Events : (e2.round = rounds /\ e2.provide = "ok") => e2 = e

\* every merge of the current round was made by an endpoint declared
\* before position i
MergesOnlyBefore(i) ==
    \A e \in Events :
        (e.inst = inst /\ e.round = rounds /\ e.provide = "ok" /\ Obj(e.ep).providers # <<>>)
            => e.ep[2] < i

\* C20: a round walks the endpoints in declaration order; entering an
\* endpoint forms its bindings from params as it is then, so that at the
\* end of a round an endpoint declared after every endpoint that merged in
\* it has all bindings over the merged values issued; while an endpoint is
\* processed its bindings are only consumed, whatever it merges, and the
\* values an endpoint discovers itself are fetched in a later round
C20_LiveStoreFixedBindings ==
    /\ []((pc \in {"while", "returned"} /\ rounds >= 1) =>
            \A i \in 1..Len(urls) :
                LET deps == dependencies(Obj(urls[i]))
                IN  (MergesOnlyBefore(i) /\ {deps[j] : j \in 1..Len(deps)} \subseteq DOMAIN params)
                       => \A x \in TuplesOver(deps) :
                             <<urls[i], DictValues(DictZip(deps, x))>> \in done)
    /\ [](Config = SelfFeedConfig =>
            \A e1, e2 \in Events :
                (e1.url = "n/1" /\ e2.url \in {"n/2", "n/null"}) => e2.round > e1.round)
    /\ [][/\ pc' = "url" => ui' = (IF pc = "while" THEN 1 ELSE ui + 1)
          /\ (pc = "url" /\ pc' = "binding") =>
                /\ ui' = ui
                /\ {DictValues(pending'[k]) : k \in 1..Len(pending')}
                      = {DictValues(DictZip(CurrentDeps, x)) : x \in TuplesOver(CurrentDeps)}
          /\ (pc = "binding" /\ pc' = "binding") =>
                ui' = ui /\ pending' = Tail(pending)]_vars

\* C20 witness: the first round has ended with the applications, the jobs
\* of an application found in it and a job found in those all fetched
C20_Witness ==
    /\ pc = "while"
    /\ rounds = 1
    /\ \E e \in Events : e.url = SparkBase \o "applications" /\ e.provide = "ok"
    /\ \E e \in Events : e.url = SparkBase \o "applications/app2/jobs" /\ e.provide = "ok"
    /\ \E e \in Events : e.url = SparkBase \o "applications/app2/jobs/1" /\ e.fetch = "ok"

====
